---------------------------- MODULE Spec2Model ----------------------------
(***************************************************************************)
(* The order pipeline of the sqs sample: the OrderManager handler          *)
(* (idempotent ingestion, store writes, fan-out to the FIFO queue), the    *)
(* FIFO queue with its dead-letter queue as the stack configures them, the *)
(* OrderProcessor handler and the DLQProcessor handler.                    *)
(***************************************************************************)
EXTENDS Integers, Sequences, FiniteSets, TLC

(* ------------------------------ bounds -------------------------------- *)

\* Ingestion invocations in one behaviour.
MaxCalls == 2

\* Messages of the four-item order that are queued when its ingestion ends.
MaxQueued == 2

\* The clock (new Date(), Date.now()) runs over 0..MaxTime.
MaxTime == 1

(* ------------------------- program constants -------------------------- *)

\* deadLetterQueue: { queue: dlq, maxReceiveCount: 3 }
maxReceiveCount == 3

\* SqsEventSource(queue, { batchSize: 1 })
batchSize == 1

\* SqsEventSource(dlq, { batchSize: 10 })
dlqBatchSize == 10

(* ------------------------------ requests ------------------------------ *)

\* An absent attribute (processedAt, failedAt before they are SET).
NoValue == "none"

\* The orderItems array of a request: n items of content variant v.
OrderItems(n, v) ==
    [i \in 1..n |-> [itemDetail |-> v, quantity |-> 1, price |-> v]]

\* An order request (OrderEvent) of n items of content variant v.
Order(orderId, n, v) ==
    [orderId |-> orderId, userId |-> "u", orderStatus |-> "PENDING",
     orderItems |-> OrderItems(n, v)]

\* The request of the callers: a one-item order; its item 0 always succeeds.
Requests == { Order("o1", 1, 1) }

\* A two-item order: item 0 always succeeds, item 1 fails at random.
PairRequests == { Order("o1", 2, 1) }

\* A four-item order: its item 3 always fails.
FourItems == Order("o1", 4, 1)

\* An item id that is the same for every position of an order.
ItemIdPerOrder(orderId, index) == <<orderId, 0>>

\* `${orderId}-item-${index}`: the id ends in the decimal digits of index.
ItemIdOf(orderId, index) == <<orderId, index>>

\* itemId.slice(-1): the last character of the id, the last digit of index.
lastDigit(itemId) == itemId[2] % 10

VARIABLES
    now,        \* the clock
    orders,     \* OrdersTable: the records, keyed by (orderId, timestamp)
    items,      \* OrderItemsTable: (orderId, itemId) -> record
    idem,       \* idempotency table: fingerprint -> record
    calls,      \* OrderManager invocations: call -> its locals and position
    queue,      \* sqs-main-queue.fifo: the messages, in the order accepted
    dedup,      \* deduplication ids the main queue has accepted
    dlq,        \* sqs-dlq.fifo: the messages, in the order moved
    procs,      \* running OrderProcessor invocations
    dlqInv,     \* running DLQProcessor invocations
    hist        \* per message, what has happened to it so far: the body sent,
                \* its deliveries, the unit-of-work executions that succeeded
                \* (ok) and failed (fail), whether a delivery was lost to a
                \* store error or to the timeouts (faulted), and whether its
                \* mark-FAILED write failed (unmarked)

vars == <<now, orders, items, idem, calls, queue, dedup, dlq, procs, dlqInv, hist>>


(* ----------------------- OrderManager (ingestion) ---------------------- *)

\* new Date().toISOString() at clock value t: the time as a string.
toISOString(t) == ToString(t)

\* makeIdempotent(fn, { persistenceStore }): no eventKeyJmesPath is given, so
\* the idempotency key is the hash of the whole event payload.
IdempotencyKey(event) == event

\* items.reduce((sum, item) => sum + (item.price * item.quantity), 0)
RECURSIVE totalValue(_)
totalValue(its) ==
    IF its = <<>> THEN 0
    ELSE totalValue(SubSeq(its, 1, Len(its) - 1))
         + its[Len(its)].price * its[Len(its)].quantity

\* The order record addOrderToDatabase builds.
orderRecord(event, timestamp) ==
    [orderId     |-> event.orderId,
     userId      |-> event.userId,
     orderStatus |-> event.orderStatus,
     timestamp   |-> timestamp,
     totalItems  |-> Len(event.orderItems),
     totalValue  |-> totalValue(event.orderItems)]

\* items.map((item, index) => ({...})): position i of the sequence is index i-1.
orderItemRecords(event, timestamp) ==
    [i \in 1..Len(event.orderItems) |->
        [orderId    |-> event.orderId,
         itemId     |-> ItemIdOf(event.orderId, i - 1),
         itemDetail |-> event.orderItems[i].itemDetail,
         quantity   |-> event.orderItems[i].quantity,
         price      |-> event.orderItems[i].price,
         itemStatus |-> "PENDING",
         timestamp  |-> timestamp]]

\* The key of an item record in OrderItemsTable.
ItemKey(rec) == <<rec.orderId, rec.itemId>>

\* A stored item: the attributes put, processedAt and failedAt absent.
StoredItem(rec) ==
    [itemDetail |-> rec.itemDetail, quantity |-> rec.quantity,
     price |-> rec.price, itemStatus |-> rec.itemStatus,
     timestamp |-> rec.timestamp,
     processedAt |-> NoValue, failedAt |-> NoValue]

\* PutCommand on OrdersTable: the record with the same (orderId, timestamp)
\* key is replaced, any other is kept.
PutOrderRecord(table, rec) ==
    { r \in table : ~(r.orderId = rec.orderId /\ r.timestamp = rec.timestamp) }
        \cup {rec}

\* BatchWriteCommand of PutRequests on OrderItemsTable: each record replaces
\* the whole item stored under its key.
BatchPutItems(table, recs) ==
    LET new == { ItemKey(recs[i]) : i \in DOMAIN recs }
        at(k) == CHOOSE i \in DOMAIN recs : ItemKey(recs[i]) = k
    IN  [k \in DOMAIN table \cup new |->
            IF k \in new THEN StoredItem(recs[at(k)]) ELSE table[k]]

\* A deduplication id that is the same for every item of an order.
DeduplicationIdPerOrder(rec, sentAt, index) == <<<<rec.orderId, 0>>, sentAt, 0>>

\* `${itemMessage.itemId}-${Date.now()}-${index}`
MessageDeduplicationId(rec, sentAt, index) == <<rec.itemId, sentAt, index>>

\* The result the handler returns on success.
SuccessResult == [statusCode |-> 200, body |-> "Orders processed successfully"]

\* How a call ended: not yet, with the value returned, or with the error thrown.
NoOutcome == [kind |-> "none"]
Returned(result) == [kind |-> "returned", result |-> result]
Thrown(error) == [kind |-> "thrown", error |-> error]

\* The event of an invocation that has not started: no request.
NoEvent == [orderId |-> NoValue]

\* An invocation that has not started: no event, no timestamp taken, no
\* Date.now() read (-1) and no send issued.
IdleCall ==
    [pc |-> "idle", event |-> NoEvent, timestamp |-> NoValue,
     sentAt |-> -1, sends |-> <<>>, outcome |-> NoOutcome]

\* Removing the record of key k from the idempotency table.
DeleteRecord(table, k) == [x \in DOMAIN table \ {k} |-> table[x]]

\* A table that drops what is written to it.
NoSave(table, k, rec) == table

\* Writing the record of key k of the idempotency table.
SaveRecord(table, k, rec) ==
    [x \in DOMAIN table \cup {k} |-> IF x = k THEN rec ELSE table[x]]

\* An invocation that starts the body without looking the key up.
InvokeUnguarded(c, event) ==
    /\ calls[c].pc = "idle"
    /\ \A d \in DOMAIN calls : d < c => calls[d].pc # "idle"
    /\ idem' = SaveRecord(idem, IdempotencyKey(event),
                   [status |-> "INPROGRESS"])
    /\ calls' = [calls EXCEPT ![c] =
            [IdleCall EXCEPT !.pc = "putOrder", !.event = event,
                             !.timestamp = toISOString(now)]]
    /\ UNCHANGED <<now, orders, items, queue, dedup, dlq, procs, dlqInv, hist>>

\* An invocation of the wrapped handler: the guard looks the key up; a
\* completed record answers the call, a record in progress rejects it, and
\* otherwise the in-progress record is written and the body starts.
Invoke(c, event) ==
    LET k == IdempotencyKey(event) IN
    /\ calls[c].pc = "idle"
    /\ \A d \in DOMAIN calls : d < c => calls[d].pc # "idle"
    /\ IF k \notin DOMAIN idem
       THEN /\ idem' = SaveRecord(idem, k, [status |-> "INPROGRESS"])
            /\ calls' = [calls EXCEPT ![c] =
                    [IdleCall EXCEPT !.pc = "putOrder", !.event = event,
                                     !.timestamp = toISOString(now)]]
       ELSE /\ idem' = idem
            /\ calls' = [calls EXCEPT ![c] =
                    [IdleCall EXCEPT !.pc = "done", !.event = event,
                        !.outcome = IF idem[k].status = "COMPLETED"
                                    THEN Returned(idem[k].result)
                                    ELSE Thrown("IdempotencyAlreadyInProgressError")]]
    /\ UNCHANGED <<now, orders, items, queue, dedup, dlq, procs, dlqInv, hist>>

\* A failing body whose in-progress record is left in the table.
KeepRecord(c, error) ==
    /\ calls' = [calls EXCEPT ![c].pc = "done", ![c].outcome = Thrown(error)]
    /\ idem' = idem

\* The body fails: the guard deletes the in-progress record and the error
\* reaches the caller.
FailCall(c, error) ==
    /\ calls' = [calls EXCEPT ![c].pc = "done", ![c].outcome = Thrown(error)]
    /\ idem' = DeleteRecord(idem, IdempotencyKey(calls[c].event))

\* addOrderToDatabase: the PutCommand of the order record.
PutOrder(c) ==
    /\ calls[c].pc = "putOrder"
    /\ \E ok \in BOOLEAN :
          IF ok
          THEN /\ orders' = PutOrderRecord(orders,
                               orderRecord(calls[c].event, calls[c].timestamp))
               /\ calls' = [calls EXCEPT ![c].pc = "batchWrite"]
               /\ idem' = idem
          ELSE /\ FailCall(c, "PersistenceError")
               /\ orders' = orders
    /\ UNCHANGED <<now, items, queue, dedup, dlq, procs, dlqInv, hist>>

\* addOrderToDatabase: the BatchWriteCommand of the item records; on return
\* the handler maps the records to sends (Date.now() is read there).
BatchWriteItems(c) ==
    LET recs == orderItemRecords(calls[c].event, calls[c].timestamp) IN
    /\ calls[c].pc = "batchWrite"
    /\ \E ok \in BOOLEAN :
          IF ok
          THEN /\ items' = BatchPutItems(items, recs)
               /\ calls' = [calls EXCEPT ![c].pc = "send", ![c].sentAt = now,
                                ![c].sends = [i \in DOMAIN recs |-> "todo"]]
               /\ idem' = idem
          ELSE /\ FailCall(c, "PersistenceError")
               /\ items' = items
    /\ UNCHANGED <<now, orders, queue, dedup, dlq, procs, dlqInv, hist>>

\* The message one SendMessageCommand carries.
Message(c, i, rec, sentAt) ==
    [id      |-> <<c, i - 1>>,
     group   |-> rec.orderId,
     body    |-> rec,
     dedupId |-> MessageDeduplicationId(rec, sentAt, i - 1),
     rc      |-> 0,
     visible |-> TRUE]

\* A message id enters the history with nothing delivered or executed.
NewHist(h, m) ==
    [x \in DOMAIN h \cup {m.id} |->
        IF x = m.id
        THEN [body |-> m.body, deliveries |-> 0, ok |-> 0, fail |-> 0,
              faulted |-> FALSE, unmarked |-> FALSE]
        ELSE h[x]]

\* One of the concurrent sends of Promise.all completes: the queue accepts the
\* message (dropping it when its deduplication id was seen), or the send fails.
\* A send that is under way when Promise.all has rejected completes all the
\* same.
SendMessage(c, i) ==
    LET recs == orderItemRecords(calls[c].event, calls[c].timestamp)
        m    == Message(c, i, recs[i], calls[c].sentAt)
    IN
    /\ calls[c].pc \in {"send", "done"}
    /\ i \in DOMAIN calls[c].sends
    /\ calls[c].sends[i] = "todo"
    /\ \E ok \in BOOLEAN :
          IF ok
          THEN /\ calls' = [calls EXCEPT ![c].sends[i] = "ok"]
               /\ IF m.dedupId \in dedup
                  THEN UNCHANGED <<queue, dedup, hist>>
                  ELSE /\ queue' = Append(queue, m)
                       /\ dedup' = dedup \cup {m.dedupId}
                       /\ hist' = NewHist(hist, m)
          ELSE /\ calls' = [calls EXCEPT ![c].sends[i] = "failed"]
               /\ UNCHANGED <<queue, dedup, hist>>
    /\ UNCHANGED <<now, orders, items, idem, dlq, procs, dlqInv>>

\* await Promise.all(messagePromises) settles: with every send accepted the
\* handler returns 200 and the guard stores the result; as soon as one send is
\* rejected the handler throws, whatever sends are still under way.
Return(c) ==
    LET s == calls[c].sends IN
    /\ calls[c].pc = "send"
    /\ \/ \A i \in DOMAIN s : s[i] = "ok"
       \/ \E i \in DOMAIN s : s[i] = "failed"
    /\ IF \A i \in DOMAIN s : s[i] = "ok"
       THEN /\ calls' = [calls EXCEPT ![c].pc = "done", ![c].outcome = Returned(SuccessResult)]
            /\ idem' = SaveRecord(idem, IdempotencyKey(calls[c].event),
                           [status |-> "COMPLETED", result |-> SuccessResult])
       ELSE FailCall(c, "EnqueueError")
    /\ UNCHANGED <<now, orders, items, queue, dedup, dlq, procs, dlqInv, hist>>

\* The idempotency record's expiration passes (timeToLiveAttribute).
Expire(k) ==
    /\ k \in DOMAIN idem
    /\ idem[k].status = "COMPLETED"
    /\ idem' = DeleteRecord(idem, k)
    /\ UNCHANGED <<now, orders, items, calls, queue, dedup, dlq, procs, dlqInv, hist>>

\* Time passes.
Tick ==
    /\ now < MaxTime
    /\ now' = now + 1
    /\ UNCHANGED <<orders, items, idem, calls, queue, dedup, dlq, procs, dlqInv, hist>>

(* ------------------- sqs-main-queue.fifo and its DLQ ------------------- *)

\* The sequence q with nothing removed.
Untouched(q, i) == q

\* The sequence q without its element at position i.
RemoveAt(q, i) == SubSeq(q, 1, i - 1) \o SubSeq(q, i + 1, Len(q))

\* A queue that is first-in-first-out as a whole, whatever the group.
ReceivableInOrder(q, i) ==
    /\ q[i].visible
    /\ \A j \in 1..Len(q) : j >= i /\ q[j].visible

\* A queue without groups: every visible message can be received.
ReceivableAny(q, i) == q[i].visible

\* fifo: true. A message can be received when it is visible, no message of
\* its group was accepted before it and is still queued, and no message of
\* its group is in flight.
Receivable(q, i) ==
    /\ q[i].visible
    /\ \A j \in 1..Len(q) :
          q[j].group = q[i].group => (j >= i /\ q[j].visible)

\* A redrive policy of maxReceiveCount 1.
ExhaustedEarly(m) == m.rc >= 1

\* A redrive policy that lets the message be received once more.
ExhaustedLate(m) == m.rc > maxReceiveCount

\* deadLetterQueue.maxReceiveCount: a message received that many times is
\* moved to the dead-letter queue instead of being received again.
Exhausted(m) == m.rc >= maxReceiveCount

\* The ids of the messages of q that are in flight.
InFlight(q) == { q[j].id : j \in { x \in 1..Len(q) : ~q[x].visible } }

\* The ids of the messages that are queued or held by a running invocation.
Alive(q, d, ps, ds) ==
    { q[j].id : j \in 1..Len(q) } \cup { d[j].id : j \in 1..Len(d) }
        \cup { p.id : p \in ps } \cup UNION { { r.id : r \in x.records } : x \in ds }

\* The history h of the messages that are still alive: what happened to a
\* message is forgotten once it is deleted and its invocations have ended.
Keep(h, q, d, ps, ds) == [x \in DOMAIN h \cap Alive(q, d, ps, ds) |-> h[x]]

\* The event source receives the message (batchSize 1) and starts an
\* OrderProcessor invocation on it; the message is in flight. The invocation
\* remembers which messages were in flight when it started.
Deliver(i) ==
    /\ i \in 1..Len(queue)
    /\ Receivable(queue, i)
    /\ ~Exhausted(queue[i])
    /\ queue' = [queue EXCEPT ![i].rc = @ + 1, ![i].visible = FALSE]
    /\ procs' = procs \cup
          {[id |-> queue[i].id, receipt |-> queue[i].rc + 1,
            body |-> queue[i].body, pc |-> "get", since |-> InFlight(queue)]}
    /\ hist' = [hist EXCEPT ![queue[i].id].deliveries = @ + 1]
    /\ UNCHANGED <<now, orders, items, idem, calls, dedup, dlq, dlqInv>>

\* The redrive policy moves the message to the dead-letter queue.
Redrive(i) ==
    /\ i \in 1..Len(queue)
    /\ Receivable(queue, i)
    /\ Exhausted(queue[i])
    /\ queue' = RemoveAt(queue, i)
    /\ dlq' = Append(dlq, [queue[i] EXCEPT !.visible = TRUE])
    /\ UNCHANGED <<now, orders, items, idem, calls, dedup, procs, dlqInv, hist>>

\* timeout: 30 s of the function. When the visibility timeout of a receive
\* elapses, 30 s after it, an invocation that started before that receive has
\* run for 30 s and was ended by the function timeout; the invocation the
\* receive started, and those started after it, may still be running.
TimedOut(p, m) ==
    /\ ~(p.id = m.id /\ p.receipt = m.rc)
    /\ m.id \notin p.since

\* The invocation of the latest receive of m is still running.
Overlaps(p, m) == p.id = m.id /\ p.receipt = m.rc

\* visibilityTimeout: 30 s. The message is visible again, whether the
\* invocation of this receive has ended or is still running.
VisibilityTimeout(i) ==
    LET m    == queue[i]
        dead == { p \in procs : TimedOut(p, m) }
        lost == { p.id : p \in dead } \cup
                { p.id : p \in { x \in procs : Overlaps(x, m) } }
    IN
    /\ i \in 1..Len(queue)
    /\ ~m.visible
    /\ queue' = [queue EXCEPT ![i].visible = TRUE]
    /\ procs' = procs \ dead
    /\ hist' = Keep([x \in DOMAIN hist |->
                        IF x \in lost THEN [hist[x] EXCEPT !.faulted = TRUE]
                        ELSE hist[x]],
                     queue', dlq, procs', dlqInv)
    /\ UNCHANGED <<now, orders, items, idem, calls, dedup, dlq, dlqInv>>

(* --------------------------- OrderProcessor ---------------------------- *)

\* A unit of work that fails for every item.
AlwaysFails(itemId, coin) == TRUE

\* shouldSimulateFailure; coin is the outcome of Math.random() < 0.5.
shouldSimulateFailure(itemId, coin) ==
    IF lastDigit(itemId) = 3 THEN TRUE
    ELSE IF lastDigit(itemId) = 1 THEN coin
    ELSE FALSE

\* A check that skips processed items only.
OnlyProcessed(table, k) ==
    /\ k \in DOMAIN table
    /\ table[k].itemStatus = "PROCESSED"

\* existingItem.Item && existingItem.Item.itemStatus === 'PROCESSED', or 'FAILED'
AlreadyTerminal(table, k) ==
    /\ k \in DOMAIN table
    /\ table[k].itemStatus \in {"PROCESSED", "FAILED"}

\* An item UpdateCommand creates when the key holds none.
EmptyItem ==
    [itemDetail |-> NoValue, quantity |-> NoValue, price |-> NoValue,
     itemStatus |-> NoValue, timestamp |-> NoValue,
     processedAt |-> NoValue, failedAt |-> NoValue]

\* An update that sets failedAt along with the status and processedAt.
SetProcessedAndFailedAt(table, k, status, at) ==
    [x \in DOMAIN table \cup {k} |->
        IF x = k
        THEN [(IF k \in DOMAIN table THEN table[k] ELSE EmptyItem)
                 EXCEPT !.itemStatus = status, !.processedAt = at,
                        !.failedAt = at]
        ELSE table[x]]

\* UpdateCommand 'SET itemStatus = :status, processedAt = :processedAt'
SetProcessed(table, k, status, at) ==
    [x \in DOMAIN table \cup {k} |->
        IF x = k
        THEN [(IF k \in DOMAIN table THEN table[k] ELSE EmptyItem)
                 EXCEPT !.itemStatus = status, !.processedAt = at]
        ELSE table[x]]

\* The invocation p at another position.
Moved(p, pc) == [p EXCEPT !.pc = pc]

\* A processRecord that logs the failure of the unit of work and returns.
processRecordSwallowing(p) ==
    LET k == ItemKey(p.body) IN
    /\ p \in procs
    /\ p.pc = "get"
    /\ \E found \in BOOLEAN, coin \in BOOLEAN :
          IF ~found
          THEN /\ procs' = procs \ {p}
               /\ hist' = Keep([hist EXCEPT ![p.id].faulted = TRUE],
                               queue, dlq, procs', dlqInv)
          ELSE IF AlreadyTerminal(items, k)
          THEN /\ procs' = (procs \ {p}) \cup {Moved(p, "ack")}
               /\ hist' = hist
          ELSE IF shouldSimulateFailure(p.body.itemId, coin)
          THEN /\ procs' = (procs \ {p}) \cup {Moved(p, "ack")}
               /\ hist' = [hist EXCEPT ![p.id].fail = @ + 1]
          ELSE /\ procs' = (procs \ {p}) \cup {Moved(p, "update")}
               /\ hist' = [hist EXCEPT ![p.id].ok = @ + 1]
    /\ UNCHANGED <<now, orders, items, idem, calls, queue, dedup, dlq, dlqInv>>

\* processRecord up to the unit of work: the GetCommand (found: whether it
\* answered or threw), the terminal-state check, and processOrderItem, which
\* throws when shouldSimulateFailure says so. A throw is logged and thrown
\* again: the invocation ends in error.
processRecord(p) ==
    LET k == ItemKey(p.body) IN
    /\ p \in procs
    /\ p.pc = "get"
    /\ \E found \in BOOLEAN, coin \in BOOLEAN :
          IF ~found
          THEN /\ procs' = procs \ {p}
               /\ hist' = Keep([hist EXCEPT ![p.id].faulted = TRUE],
                               queue, dlq, procs', dlqInv)
          ELSE IF AlreadyTerminal(items, k)
          THEN /\ procs' = (procs \ {p}) \cup {Moved(p, "ack")}
               /\ hist' = hist
          ELSE IF shouldSimulateFailure(p.body.itemId, coin)
          THEN /\ procs' = procs \ {p}
               /\ hist' = Keep([hist EXCEPT ![p.id].fail = @ + 1],
                               queue, dlq, procs', dlqInv)
          ELSE /\ procs' = (procs \ {p}) \cup {Moved(p, "update")}
               /\ hist' = [hist EXCEPT ![p.id].ok = @ + 1]
    /\ UNCHANGED <<now, orders, items, idem, calls, queue, dedup, dlq, dlqInv>>

\* An updateItemStatus whose failure is logged and not thrown again.
updateItemStatusSwallowing(p) ==
    /\ p \in procs
    /\ p.pc = "update"
    /\ \E ok \in BOOLEAN :
          IF ok
          THEN /\ items' = SetProcessed(items, ItemKey(p.body), "PROCESSED",
                                            toISOString(now))
               /\ procs' = (procs \ {p}) \cup {Moved(p, "ack")}
               /\ hist' = hist
          ELSE /\ items' = items
               /\ procs' = (procs \ {p}) \cup {Moved(p, "ack")}
               /\ hist' = [hist EXCEPT ![p.id].faulted = TRUE]
    /\ UNCHANGED <<now, orders, idem, calls, queue, dedup, dlq, dlqInv>>

\* updateItemStatus(orderId, itemId, 'PROCESSED'): the write, or its failure,
\* which is thrown again and ends the invocation in error.
updateItemStatus(p) ==
    /\ p \in procs
    /\ p.pc = "update"
    /\ \E ok \in BOOLEAN :
          IF ok
          THEN /\ items' = SetProcessed(items, ItemKey(p.body), "PROCESSED",
                                            toISOString(now))
               /\ procs' = (procs \ {p}) \cup {Moved(p, "ack")}
               /\ hist' = hist
          ELSE /\ items' = items
               /\ procs' = procs \ {p}
               /\ hist' = Keep([hist EXCEPT ![p.id].faulted = TRUE],
                               queue, dlq, procs', dlqInv)
    /\ UNCHANGED <<now, orders, idem, calls, queue, dedup, dlq, dlqInv>>

\* DeleteMessage with the receipt handle of one receive: the message is
\* deleted when that receive is its most recent one.
DeleteMessage(q, id, receipt) ==
    IF \E i \in 1..Len(q) : q[i].id = id /\ q[i].rc = receipt
    THEN RemoveAt(q, CHOOSE i \in 1..Len(q) : q[i].id = id)
    ELSE q

\* The handler returned without error: the event source deletes the message.
Ack(p) ==
    /\ p \in procs
    /\ p.pc = "ack"
    /\ queue' = DeleteMessage(queue, p.id, p.receipt)
    /\ procs' = procs \ {p}
    /\ hist' = Keep(hist, queue', dlq, procs', dlqInv)
    /\ UNCHANGED <<now, orders, items, idem, calls, dedup, dlq, dlqInv>>

(* ---------------------------- DLQProcessor ----------------------------- *)

\* An update that writes nothing.
NotSet(table, k, at) == table

\* UpdateCommand 'SET itemStatus = :status, failedAt = :failedAt'
SetFailed(table, k, at) ==
    [x \in DOMAIN table \cup {k} |->
        IF x = k
        THEN [(IF k \in DOMAIN table THEN table[k] ELSE EmptyItem)
                 EXCEPT !.itemStatus = "FAILED", !.failedAt = at]
        ELSE table[x]]

\* The positions of the dead-letter queue a batch may hold: visible messages,
\* at most dlqBatchSize, of each group a prefix of what is queued, and none of
\* a group that has a message in flight.
Batch(q, B) ==
    /\ B # {}
    /\ B \subseteq 1..Len(q)
    /\ Cardinality(B) <= dlqBatchSize
    /\ \A i \in B :
          \A j \in 1..Len(q) :
             q[j].group = q[i].group => (q[j].visible /\ (j < i => j \in B))

\* The event source receives a batch from the dead-letter queue and starts a
\* DLQProcessor invocation on it.
DlqDeliver(B) ==
    /\ Batch(dlq, B)
    /\ dlq' = [i \in 1..Len(dlq) |->
                 IF i \in B THEN [dlq[i] EXCEPT !.visible = FALSE] ELSE dlq[i]]
    /\ dlqInv' = dlqInv \cup
          {[records |-> { [id |-> dlq[i].id, body |-> dlq[i].body] : i \in B },
            todo    |-> { dlq[i].id : i \in B }]}
    /\ UNCHANGED <<now, orders, items, idem, calls, queue, dedup, procs, hist>>

\* A processDLQRecord that throws what the write throws: the invocation ends
\* in error and its batch becomes visible again.
processDLQRecordRethrowing(d, r) ==
    /\ d \in dlqInv
    /\ r \in d.records
    /\ r.id \in d.todo
    /\ \E ok \in BOOLEAN :
          IF ok
          THEN /\ items' = SetFailed(items, ItemKey(r.body), toISOString(now))
               /\ hist' = hist
               /\ dlq' = dlq
               /\ dlqInv' = (dlqInv \ {d}) \cup {[d EXCEPT !.todo = @ \ {r.id}]}
          ELSE /\ items' = items
               /\ hist' = [hist EXCEPT ![r.id].unmarked = TRUE]
               /\ dlq' = [i \in 1..Len(dlq) |->
                            IF dlq[i].id \in { x.id : x \in d.records }
                            THEN [dlq[i] EXCEPT !.visible = TRUE] ELSE dlq[i]]
               /\ dlqInv' = dlqInv \ {d}
    /\ UNCHANGED <<now, orders, idem, calls, queue, dedup, procs>>

\* A processDLQRecord whose failed write ends the handling of the batch: the
\* records still to do are dropped.
processDLQRecordAborting(d, r) ==
    /\ d \in dlqInv
    /\ r \in d.records
    /\ r.id \in d.todo
    /\ \E ok \in BOOLEAN :
          IF ok
          THEN /\ items' = SetFailed(items, ItemKey(r.body), toISOString(now))
               /\ hist' = hist
               /\ dlqInv' = (dlqInv \ {d}) \cup {[d EXCEPT !.todo = @ \ {r.id}]}
          ELSE /\ items' = items
               /\ hist' = [hist EXCEPT ![r.id].unmarked = TRUE]
               /\ dlqInv' = (dlqInv \ {d}) \cup {[d EXCEPT !.todo = {}]}
    /\ UNCHANGED <<now, orders, idem, calls, queue, dedup, dlq, procs>>

\* processDLQRecord on one record of the batch: processFailedItem calls
\* updateItemStatusToFailed and catches what it throws (ok: whether the write
\* succeeded).
processDLQRecord(d, r) ==
    /\ d \in dlqInv
    /\ r \in d.records
    /\ r.id \in d.todo
    /\ \E ok \in BOOLEAN :
          IF ok
          THEN /\ items' = SetFailed(items, ItemKey(r.body), toISOString(now))
               /\ hist' = hist
          ELSE /\ items' = items
               /\ hist' = [hist EXCEPT ![r.id].unmarked = TRUE]
    /\ dlqInv' = (dlqInv \ {d}) \cup {[d EXCEPT !.todo = @ \ {r.id}]}
    /\ UNCHANGED <<now, orders, idem, calls, queue, dedup, dlq, procs>>

\* Promise.allSettled resolved and the handler returned: the event source
\* deletes the batch from the dead-letter queue.
DlqAck(d) ==
    /\ d \in dlqInv
    /\ d.todo = {}
    /\ dlq' = SelectSeq(dlq, LAMBDA m : m.id \notin { r.id : r \in d.records })
    /\ dlqInv' = dlqInv \ {d}
    /\ hist' = Keep(hist, queue, dlq', procs, dlqInv')
    /\ UNCHANGED <<now, orders, items, idem, calls, queue, dedup, procs>>

(* --------------------------- specification ----------------------------- *)

\* Nothing stored, nothing queued, n invocations of OrderManager to come.
Start(n) ==
    /\ now = 0
    /\ orders = {}
    /\ items = <<>>
    /\ idem = <<>>
    /\ calls = [c \in 1..n |-> IdleCall]
    /\ queue = <<>>
    /\ dedup = {}
    /\ dlq = <<>>
    /\ procs = {}
    /\ dlqInv = {}
    /\ hist = <<>>

\* The steps of OrderManager on the requests R.
Ingestion(R) ==
    \/ \E c \in DOMAIN calls, event \in R : Invoke(c, event)
    \/ \E c \in DOMAIN calls : PutOrder(c)
    \/ \E c \in DOMAIN calls : BatchWriteItems(c)
    \/ \E c \in DOMAIN calls : \E i \in DOMAIN calls[c].sends : SendMessage(c, i)
    \/ \E c \in DOMAIN calls : Return(c)

\* The steps of the queues and of their two consumers.
Consumers ==
    \/ \E i \in 1..Len(queue) : Deliver(i)
    \/ \E i \in 1..Len(queue) : Redrive(i)
    \/ \E i \in 1..Len(queue) : VisibilityTimeout(i)
    \/ \E p \in procs : processRecord(p)
    \/ \E p \in procs : updateItemStatus(p)
    \/ \E p \in procs : Ack(p)
    \/ \E B \in SUBSET (1..Len(dlq)) : DlqDeliver(B)
    \/ \E d \in dlqInv : \E r \in d.records : processDLQRecord(d, r)
    \/ \E d \in dlqInv : DlqAck(d)

Init == Start(MaxCalls)

Next ==
    \/ Ingestion(Requests)
    \/ \E k \in DOMAIN idem : Expire(k)
    \/ Tick
    \/ Consumers

\* Two callers of the one-item order, the clock, the expiry of idempotency
\* records, and the consumers.
Spec == Init /\ [][Next]_vars

PairInit == Start(1)

PairNext ==
    \/ Ingestion(PairRequests)
    \/ Consumers

\* One ingestion of a two-item order, and the consumers.
PairSpec == PairInit /\ [][PairNext]_vars

\* The sequences of at most MaxQueued distinct positions of 1..n.
Arrivals(n) ==
    { s \in UNION { [1..k -> 1..n] : k \in 1..MaxQueued } :
        \A a, b \in DOMAIN s : a # b => s[a] # s[b] }

RECURSIVE HistOf(_)
HistOf(q) == IF q = <<>> THEN <<>> ELSE NewHist(HistOf(Tail(q)), Head(q))

\* The state the ingestion of event leaves when the sends of the positions
\* of s were accepted in that order and every other send was rejected.
Ingested(event, s) ==
    LET recs == orderItemRecords(event, toISOString(0))
        q    == [j \in DOMAIN s |-> Message(1, s[j], recs[s[j]], 0)]
        sent == { s[j] : j \in DOMAIN s }
        all  == sent = DOMAIN recs
    IN
    /\ now = 0
    /\ orders = PutOrderRecord({}, orderRecord(event, toISOString(0)))
    /\ items = BatchPutItems(<<>>, recs)
    /\ idem = IF all
              THEN SaveRecord(<<>>, IdempotencyKey(event),
                       [status |-> "COMPLETED", result |-> SuccessResult])
              ELSE <<>>
    /\ calls = [c \in 1..1 |->
                  [IdleCall EXCEPT !.pc = "done", !.event = event,
                     !.timestamp = toISOString(0), !.sentAt = 0,
                     !.sends = [i \in DOMAIN recs |->
                                   IF i \in sent THEN "ok" ELSE "failed"],
                     !.outcome = IF all THEN Returned(SuccessResult)
                                 ELSE Thrown("EnqueueError")]]
    /\ queue = q
    /\ dedup = { q[j].dedupId : j \in DOMAIN q }
    /\ dlq = <<>>
    /\ procs = {}
    /\ dlqInv = {}
    /\ hist = HistOf(q)

\* Every step of the queues and of the consumers that stays enabled is taken.
Fairness ==
    /\ WF_vars(\E i \in 1..Len(queue) : Deliver(i))
    /\ WF_vars(\E i \in 1..Len(queue) : Redrive(i))
    /\ WF_vars(\E i \in 1..Len(queue) : VisibilityTimeout(i))
    /\ WF_vars(\E p \in procs : processRecord(p))
    /\ WF_vars(\E p \in procs : updateItemStatus(p))
    /\ WF_vars(\E p \in procs : Ack(p))
    /\ WF_vars(\E B \in SUBSET (1..Len(dlq)) : DlqDeliver(B))
    /\ WF_vars(\E d \in dlqInv : \E r \in d.records : processDLQRecord(d, r))
    /\ WF_vars(\E d \in dlqInv : DlqAck(d))

DrainInit == \E s \in Arrivals(Len(FourItems.orderItems)) : Ingested(FourItems, s)

DrainNext == Consumers

\* The consumers on what an ingestion of the four-item order has queued,
\* every enabled step of the queues and of the consumers being taken in time.
DrainSpec == DrainInit /\ [][DrainNext]_vars /\ Fairness

HappyInit == Start(1)

HappyNext ==
    \/ Ingestion(Requests)
    \/ Consumers

\* One ingestion of the one-item order and the consumers, every enabled step
\* of the queues and of the consumers being taken in time.
HappySpec == HappyInit /\ [][HappyNext]_vars /\ Fairness

(* ------------------------------ properties ---------------------------- *)

\* A step of an OrderProcessor invocation.
ProcessorStep ==
    \E p \in procs : processRecord(p) \/ updateItemStatus(p) \/ Ack(p)

\* A step of a DLQProcessor invocation.
DlqStep ==
    \/ \E d \in dlqInv : \E r \in d.records : processDLQRecord(d, r)
    \/ \E d \in dlqInv : DlqAck(d)

\* The status stored for the item of key k, NoValue when there is none.
StatusOf(table, k) == IF k \in DOMAIN table THEN table[k].itemStatus ELSE NoValue

\* The terminal statuses of an item.
Terminal == {"PROCESSED", "FAILED"}

\* C1: once the status of an item is PROCESSED or FAILED, no step of an
\* OrderProcessor invocation and no step of a DLQProcessor invocation changes
\* it, whatever the interleaving of deliveries and timeouts.
TerminalMonotonicity ==
    [][ (ProcessorStep \/ DlqStep) =>
            \A k \in DOMAIN items :
                StatusOf(items, k) \in Terminal =>
                    StatusOf(items', k) = StatusOf(items, k) ]_vars

\* The idempotency record of the request e is there with the given status.
Recorded(e, status) ==
    /\ IdempotencyKey(e) \in DOMAIN idem
    /\ idem[IdempotencyKey(e)].status = status

\* The call c is in the body of the handler.
InBody(c) == calls[c].pc \in {"putOrder", "batchWrite", "send"}

\* The call c has ended, and was made with the request e.
Ended(c, e) == calls[c].pc = "done" /\ calls[c].event = e

\* This step is the invocation of the call c with the request e.
Invoked(c, e) ==
    /\ calls[c].pc = "idle"
    /\ calls'[c].pc # "idle"
    /\ calls'[c].event = e

\* C2: a call made with a request whose earlier call completed successfully,
\* its idempotency record not expired, does not run the body: it ends at once
\* with the result the earlier call returned, the order and item records are
\* as they were, and no message is sent.
IdempotentIngestion ==
    [][ \A c \in DOMAIN calls, e \in Requests :
            (Invoked(c, e) /\ Recorded(e, "COMPLETED")) =>
                /\ calls'[c].pc = "done"
                /\ \E d \in DOMAIN calls \ {c} :
                      /\ Ended(d, e)
                      /\ calls[d].outcome = Returned(SuccessResult)
                      /\ calls'[c].outcome = calls[d].outcome
                /\ UNCHANGED <<orders, items, queue, dedup, hist>> ]_vars

\* A call was answered from the record of a completed one: it returned the
\* success result and never built a send.
AnsweredFromRecord ==
    \E c \in DOMAIN calls :
        /\ calls[c].pc = "done"
        /\ calls[c].outcome = Returned(SuccessResult)
        /\ calls[c].sends = <<>>

\* C3: of two calls with the same request that overlap in time, at most one
\* is in the body; a call invoked while another one with the same request is
\* in the body ends with the in-progress error, writes no record and sends no
\* message.
ConcurrentDuplicateIngestion ==
    /\ [](\A c, d \in DOMAIN calls :
             (c # d /\ InBody(c) /\ InBody(d)) => calls[c].event # calls[d].event)
    /\ [][ \A c \in DOMAIN calls, e \in Requests :
              (Invoked(c, e) /\ \E d \in DOMAIN calls \ {c} :
                                   InBody(d) /\ calls[d].event = e) =>
                  /\ calls'[c].pc = "done"
                  /\ calls'[c].outcome = Thrown("IdempotencyAlreadyInProgressError")
                  /\ UNCHANGED <<orders, items, queue, dedup, hist>> ]_vars

\* A call was rejected while the other call, with the same request, is in the
\* body.
RejectedWhileInProgress ==
    \E c, d \in DOMAIN calls :
        /\ c # d
        /\ InBody(d)
        /\ Ended(c, calls[d].event)
        /\ calls[c].outcome = Thrown("IdempotencyAlreadyInProgressError")

\* The message of the given id is on the main queue.
Queued(id) == \E i \in 1..Len(queue) : queue[i].id = id

\* The message of the given id has been delivered to the OrderProcessor.
Delivered(id) == id \in DOMAIN hist /\ hist[id].deliveries >= 1

\* C4: the messages one call enqueues for the items of an order are processed
\* in item order: the message of a later item is not delivered while the send
\* of an earlier item is still under way or its message still on the queue.
PartitionOrdering ==
    \A c \in DOMAIN calls :
        \A i, j \in DOMAIN calls[c].sends :
            (i < j /\ Delivered(<<c, j - 1>>) /\ calls[c].sends[i] # "failed") =>
                (calls[c].sends[i] = "ok" /\ ~Queued(<<c, i - 1>>))

\* C5: no two messages of one group (orderId) are in flight at once, and no
\* message is held by two OrderProcessor invocations at once.
MutualExclusion ==
    /\ \A i, j \in 1..Len(queue) :
          (i # j /\ queue[i].group = queue[j].group) =>
              (queue[i].visible \/ queue[j].visible)
    /\ \A p, q \in procs : p # q => p.id # q.id

\* The unit-of-work executions recorded for the message id in h, when it is
\* still recorded there, are those recorded in g.
SameExecutions(g, h, id) ==
    id \in DOMAIN h => (h[id].ok = g[id].ok /\ h[id].fail = g[id].fail)

\* The invocation p, which received a message of an item whose stored status
\* is terminal, takes its step and leaves every record as it is.
SkipsTerminal(p) ==
    /\ UNCHANGED <<orders, items, idem, queue, dlq>>
    /\ SameExecutions(hist, hist', p.id)

\* C10, as the specification states it: an invocation that received a message
\* of an item whose stored status is PROCESSED or FAILED returns without error,
\* so that the message is acknowledged, without executing the unit of work and
\* without changing a record.
DuplicateDeliveryAcknowledged ==
    [][ \A p \in procs :
            (processRecord(p) /\ StatusOf(items, ItemKey(p.body)) \in Terminal) =>
                (SkipsTerminal(p) /\ Moved(p, "ack") \in procs') ]_vars

\* C10, as the code has it: such an invocation never executes the unit of
\* work and never changes a record; it returns without error, so that the
\* message is acknowledged, when its lookup of the item answers, and ends in
\* error, the message left to be delivered again, when the lookup throws. The
\* acknowledgement changes no record either.
DuplicateDeliveryNoOp ==
    [][ \A p \in procs :
            /\ (processRecord(p) /\ StatusOf(items, ItemKey(p.body)) \in Terminal) =>
                  /\ SkipsTerminal(p)
                  /\ \/ Moved(p, "ack") \in procs' /\ hist' = hist
                     \/ /\ procs' = procs \ {p}
                        /\ p.id \in DOMAIN hist' => hist'[p.id].faulted
            /\ Ack(p) => UNCHANGED <<orders, items, idem>> ]_vars

\* An invocation is about to return without error on a message no delivery
\* of which executed the unit of work with success: it found the item terminal.
SkippedDelivery ==
    \E p \in procs :
        /\ p.pc = "ack"
        /\ hist[p.id].ok = 0
        /\ StatusOf(items, ItemKey(p.body)) \in Terminal

\* The message of the given id is on the dead-letter queue.
InDlq(id) == \E i \in 1..Len(dlq) : dlq[i].id = id

\* The positions of the dead-letter queue that hold the message id.
DlqCopies(id) == { i \in 1..Len(dlq) : dlq[i].id = id }

\* A message on the main queue was delivered as often as it was received, at
\* most n times; a message on the dead-letter queue was delivered exactly n
\* times, is there once, with the body it was sent with, and is not on the
\* main queue.
EscalatedAfter(n) ==
    /\ \A i \in 1..Len(queue) :
          /\ queue[i].rc <= n
          /\ hist[queue[i].id].deliveries = queue[i].rc
    /\ \A i \in 1..Len(dlq) :
          /\ hist[dlq[i].id].deliveries = n
          /\ dlq[i].body = hist[dlq[i].id].body
          /\ Cardinality(DlqCopies(dlq[i].id)) = 1
          /\ ~Queued(dlq[i].id)

\* C6, as the specification states it: a message that fails on every delivery
\* is delivered once and redelivered maxReceiveCount times, and is moved to
\* the dead-letter queue on delivery maxReceiveCount + 1.
EscalateAfterMaxRedeliveries == EscalatedAfter(maxReceiveCount + 1)

\* C6, as the code has it: a message that fails on every delivery is delivered
\* maxReceiveCount times in all, its first delivery and maxReceiveCount - 1
\* redeliveries; the receive that would be delivery maxReceiveCount + 1 moves
\* it to the dead-letter queue instead, where it is exactly once, with the
\* body it was enqueued with, and it is never on both queues.
RetryThenEscalate == EscalatedAfter(maxReceiveCount)

\* The message of an item that fails at random is on the dead-letter queue,
\* its unit of work having failed on each of its deliveries.
RandomFailureEscalated ==
    \E i \in 1..Len(dlq) :
        /\ lastDigit(dlq[i].body.itemId) = 1
        /\ hist[dlq[i].id].fail = maxReceiveCount

\* C7: the message of an item whose id ends in 3 is on the dead-letter queue
\* only after exactly 3 deliveries, each of which failed; its unit of work is
\* never executed a 4th time and never with success, and the item is never
\* PROCESSED.
ThreeAttemptsThenDlq ==
    \A id \in DOMAIN hist :
        lastDigit(hist[id].body.itemId) = 3 =>
            /\ hist[id].ok = 0
            /\ hist[id].fail <= hist[id].deliveries
            /\ hist[id].deliveries <= 3
            /\ InDlq(id) => hist[id].deliveries = 3
            /\ StatusOf(items, ItemKey(hist[id].body)) # "PROCESSED"

\* The message of the item whose id ends in 3 is on the dead-letter queue
\* after its unit of work failed 3 times.
AlwaysFailingEscalated ==
    \E i \in 1..Len(dlq) :
        /\ lastDigit(dlq[i].body.itemId) = 3
        /\ hist[dlq[i].id].fail = 3

\* The ids of the messages of the four-item order whose item id ends in 3.
AlwaysFailIds ==
    { <<1, i - 1>> : i \in { j \in DOMAIN FourItems.orderItems :
                                lastDigit(ItemIdOf(FourItems.orderId, j - 1)) = 3 } }

\* The item of the message id is FAILED with failedAt set.
MarkedFailed(id) ==
    /\ id \in DOMAIN hist
    /\ StatusOf(items, ItemKey(hist[id].body)) = "FAILED"
    /\ items[ItemKey(hist[id].body)].failedAt # NoValue

\* The mark-FAILED write of the DLQProcessor for the message id failed.
WriteFailed(id) == id \in DOMAIN hist /\ hist[id].unmarked

\* C8, as the specification states it: the message of an item that always
\* fails comes to the dead-letter queue, and then the item becomes FAILED with
\* failedAt set.
AlwaysFailEventuallyFailed ==
    \A id \in AlwaysFailIds :
        /\ Queued(id) ~> InDlq(id)
        /\ InDlq(id) ~> MarkedFailed(id)

\* C8, as the code has it: the message comes to the dead-letter queue, and
\* then the item becomes FAILED with failedAt set unless the mark-FAILED write
\* of the DLQProcessor fails, which the handler logs and does not retry.
AlwaysFailEventuallyHandled ==
    \A id \in AlwaysFailIds :
        /\ Queued(id) ~> InDlq(id)
        /\ InDlq(id) ~> (MarkedFailed(id) \/ WriteFailed(id))

\* The DLQProcessor has marked the item of a message that always fails.
AlwaysFailMarked ==
    \E id \in AlwaysFailIds : InDlq(id) /\ MarkedFailed(id)

\* The ids of the messages of the one-item order: its item 0 never fails.
HappyIds ==
    { <<1, i - 1>> : i \in { j \in DOMAIN Order("o1", 1, 1).orderItems :
                                lastDigit(ItemIdOf("o1", j - 1)) \notin {1, 3} } }

\* The item of the message id is PROCESSED with processedAt set.
MarkedProcessed(id) ==
    /\ id \in DOMAIN hist
    /\ StatusOf(items, ItemKey(hist[id].body)) = "PROCESSED"
    /\ items[ItemKey(hist[id].body)].processedAt # NoValue

\* A delivery of the message id was lost to a store error or to the timeouts.
Faulted(id) == id \in DOMAIN hist /\ hist[id].faulted

\* The call c writes its item records: each of them is stored PENDING.
StartsPending(c) ==
    (calls[c].pc = "batchWrite" /\ calls'[c].pc = "send") =>
        \A i \in DOMAIN calls'[c].sends :
            StatusOf(items', <<calls[c].event.orderId,
                               ItemIdOf(calls[c].event.orderId, i - 1)>>) = "PENDING"

\* The call c, when it has returned with success, has had exactly one message
\* accepted for each of its items.
OneMessageEach(c) ==
    (calls[c].pc = "done" /\ calls[c].sends # <<>>
        /\ calls[c].outcome = Returned(SuccessResult)) =>
        \A i \in DOMAIN calls[c].sends :
            Cardinality({ d \in dedup :
                d[1] = ItemIdOf(calls[c].event.orderId, i - 1) }) = 1

ItemKeysOf(e) ==
    { <<e.orderId, ItemIdOf(e.orderId, i - 1)>> : i \in 1..Len(e.orderItems) }

\* The order records stored for request e's order.
OrderRecordsOf(e) == { r \in orders : r.orderId = e.orderId }

\* The deduplication ids the queue has accepted for request e's order.
EnqueuedFor(e) == { d \in dedup : d[1][1] = e.orderId }

\* C11: once no ingestion call is running, for every order either its Order
\* record and all of its Item records exist, or none of them exists and no
\* message of the order was enqueued.
AtomicPersistence ==
    (\A c \in DOMAIN calls : ~InBody(c)) =>
        \A e \in Requests :
            \/ /\ OrderRecordsOf(e) # {}
               /\ ItemKeysOf(e) \subseteq DOMAIN items
            \/ /\ OrderRecordsOf(e) = {}
               /\ ItemKeysOf(e) \cap DOMAIN items = {}
               /\ EnqueuedFor(e) = {}

\* The step in which Promise.all rejects in call c: a send of c has failed.
EnqueueFails(c) ==
    /\ calls[c].pc = "send"
    /\ calls'[c].pc = "done"
    /\ \E i \in DOMAIN calls[c].sends : calls[c].sends[i] = "failed"

\* The step in which call c returns from its body.
BodyReturns(c) ==
    /\ calls[c].pc = "send"
    /\ calls'[c].pc = "done"
    /\ calls'[c].outcome.kind = "returned"

\* What a failing Promise.all leaves behind, apart from the item statuses: the
\* error outcome, no idempotency record, and every item row as it was.
SurfacedWithoutRollback(c) ==
    /\ calls'[c].outcome = Thrown("EnqueueError")
    /\ IdempotencyKey(calls[c].event) \notin DOMAIN idem'
    /\ items' = items
    /\ ItemKeysOf(calls[c].event) \subseteq DOMAIN items'

\* C12 as stated: the call succeeds only with every send accepted, and a
\* failed send fails the call, records no result and leaves the item rows
\* present, each with status PENDING.
PartialEnqueueFailureAllPending ==
    [][\A c \in DOMAIN calls :
        /\ BodyReturns(c) =>
              \A i \in DOMAIN calls[c].sends : calls[c].sends[i] = "ok"
        /\ EnqueueFails(c) =>
              /\ SurfacedWithoutRollback(c)
              /\ \A k \in ItemKeysOf(calls[c].event) :
                    StatusOf(items', k) = "PENDING"]_vars

\* C12: the call succeeds only with every send accepted; a failed send fails
\* the call, which records no result and changes no item row (no rollback);
\* a row no message of which was accepted has status PENDING.
PartialEnqueueFailure ==
    [][\A c \in DOMAIN calls :
        /\ BodyReturns(c) =>
              \A i \in DOMAIN calls[c].sends : calls[c].sends[i] = "ok"
        /\ EnqueueFails(c) => SurfacedWithoutRollback(c)
        /\ calls'[c].pc \in {"send", "done"} =>
              \A i \in DOMAIN calls'[c].sends :
                 LET itemId == ItemIdOf(calls'[c].event.orderId, i - 1) IN
                 (\A d \in dedup' : d[1] # itemId) =>
                     StatusOf(items', <<calls'[c].event.orderId, itemId>>) = "PENDING"]_vars

\* A call has failed on a rejected send after another of its sends was
\* accepted; the rows of both items are still stored.
EnqueueFailedPartially ==
    \E c \in DOMAIN calls :
        /\ calls[c].pc = "done"
        /\ calls[c].outcome = Thrown("EnqueueError")
        /\ \E i, j \in DOMAIN calls[c].sends :
              calls[c].sends[i] = "ok" /\ calls[c].sends[j] = "failed"
        /\ ItemKeysOf(calls[c].event) \subseteq DOMAIN items
        /\ IdempotencyKey(calls[c].event) \notin DOMAIN idem

(* ------------------------ retrying an ingestion ------------------------ *)

\* The callers of the two-item order, who call again after a failure, while
\* time passes; nothing is consumed.
RetryInit == Start(MaxCalls)

RetryNext ==
    \/ Ingestion(PairRequests)
    \/ Tick

RetrySpec == RetryInit /\ [][RetryNext]_vars

\* Call c failed in its body with a persistence or an enqueue error.
FailedInBody(c) ==
    /\ calls[c].pc = "done"
    /\ calls[c].outcome \in {Thrown("PersistenceError"), Thrown("EnqueueError")}

\* Call c ran the body and returned its result.
SucceededInBody(c) ==
    /\ calls[c].pc = "done"
    /\ calls[c].sends # <<>>
    /\ calls[c].outcome = Returned(SuccessResult)

\* The state a single successful ingestion of request e leaves: one Order
\* record, every Item record, one accepted message per item.
IngestedOnce(e) ==
    /\ Cardinality(OrderRecordsOf(e)) = 1
    /\ ItemKeysOf(e) \subseteq DOMAIN items
    /\ \A k \in ItemKeysOf(e) :
          Cardinality({ d \in dedup : d[1] = k[2] }) = 1

\* C13: when a call has failed with a persistence or enqueue error and the
\* retry of the same request has succeeded, the state is that of a single
\* successful ingestion.
RetryIsSafe ==
    \A c, r \in DOMAIN calls :
        (c < r /\ FailedInBody(c) /\ SucceededInBody(r)
              /\ calls[r].event = calls[c].event) =>
            IngestedOnce(calls[r].event)

\* C14: the Orders table never holds two Order records for one orderId.
OneOrderRecordPerOrderId ==
    \A r1, r2 \in orders : r1.orderId = r2.orderId => r1 = r2

(* ------------------------- failures in the consumers ------------------- *)

\* The step in which the unit of work fails in an invocation on message id.
UnitOfWorkFails(id) ==
    /\ id \in DOMAIN hist'
    /\ hist'[id].fail = hist[id].fail + 1

\* C15: when the unit of work fails for a delivered message, the invocation
\* that ran it ends without reaching the status write or the acknowledgement,
\* the item statuses are unchanged, and the queues are as they were: the
\* message, if queued, stays queued with its receive count.
ProcessingFailurePropagates ==
    [][\A id \in DOMAIN hist :
        UnitOfWorkFails(id) =>
            /\ \E p \in procs :
                  /\ p.id = id
                  /\ p.pc = "get"
                  /\ procs' = procs \ {p}
            /\ items' = items
            /\ orders' = orders
            /\ queue' = queue
            /\ dlq' = dlq]_vars

\* A message whose unit of work has failed is back on the queue, visible and
\* held by no invocation, its item still PENDING.
FailedDeliveryRequeued ==
    \E i \in 1..Len(queue) :
        /\ queue[i].visible
        /\ ~Exhausted(queue[i])
        /\ hist[queue[i].id].fail >= 1
        /\ \A p \in procs : p.id # queue[i].id
        /\ StatusOf(items, ItemKey(queue[i].body)) = "PENDING"

\* The ids of the messages of the four-item order.
FourItemIds == { <<1, i - 1>> : i \in DOMAIN FourItems.orderItems }

\* The message id is in the dead-letter queue, received by an invocation.
DlqHeld(id) == \E i \in 1..Len(dlq) : dlq[i].id = id /\ ~dlq[i].visible

\* The DLQProcessor invocation d goes on: it is as it was, or has settled one
\* more of its records.
GoesOn(d) ==
    \/ d \in dlqInv'
    \/ \E r \in d.todo : [d EXCEPT !.todo = @ \ {r}] \in dlqInv'

\* The DLQProcessor invocation d returns and its whole batch is deleted.
Acknowledged(d) ==
    /\ d.todo = {}
    /\ dlqInv' = dlqInv \ {d}
    /\ \A r \in d.records : \A i \in 1..Len(dlq') : dlq'[i].id # r.id

AggregateStatus(S) ==
    IF "PENDING" \in S THEN "PENDING"
    ELSE IF S = {"PROCESSED"} THEN "PROCESSED"
    ELSE IF S = {"FAILED"} THEN "FAILED"
    ELSE "PARTIALLY_PROCESSED"

\* The statuses stored for the items of the order orderId.
ItemStatusesOf(orderId) ==
    { items[k].itemStatus : k \in { x \in DOMAIN items : x[1] = orderId } }

\* C17: the status stored in an Order record whose Item records exist is the
\* aggregate of the statuses of the order's items.
OrderStatusAggregation ==
    \A r \in orders :
        ItemStatusesOf(r.orderId) # {} =>
            r.orderStatus = AggregateStatus(ItemStatusesOf(r.orderId))

(* ------------------------- items failing at random --------------------- *)

\* The ids of the messages of the items of the four-item order whose id ends
\* in 1.
IntermittentIds ==
    { <<1, i - 1>> : i \in { j \in DOMAIN FourItems.orderItems :
                                lastDigit(ItemIdOf(FourItems.orderId, j - 1)) = 1 } }

\* The item of the message id is FAILED.
ItemFailed(id) ==
    /\ id \in DOMAIN hist
    /\ StatusOf(items, ItemKey(hist[id].body)) = "FAILED"

DedupIdOf(c, i) ==
    MessageDeduplicationId(
        orderItemRecords(calls[c].event, calls[c].timestamp)[i],
        calls[c].sentAt, i - 1)

\* C19: an execution of the body that has reached the fan-out of an order of
\* n items has issued n sends, one per item, with pairwise distinct
\* deduplication ids; a send was accepted exactly when its message was
\* enqueued, so none is coalesced with another; every message of the call on
\* the queue has the orderId as its group and the item's record as its body;
\* and an execution that has returned has enqueued exactly n messages.
FanOut ==
    \A c \in DOMAIN calls :
        (calls[c].pc \in {"send", "done"} /\ calls[c].sends # <<>>) =>
            LET e    == calls[c].event
                n    == Len(e.orderItems)
                recs == orderItemRecords(e, calls[c].timestamp)
            IN
            /\ DOMAIN calls[c].sends = 1..n
            /\ \A i, j \in 1..n : i # j => DedupIdOf(c, i) # DedupIdOf(c, j)
            /\ \A i \in 1..n :
                  calls[c].sends[i] = "ok" <=> DedupIdOf(c, i) \in dedup
            /\ \A x \in 1..Len(queue) :
                  queue[x].id[1] = c =>
                      /\ queue[x].group = e.orderId
                      /\ queue[x].body = recs[queue[x].id[2] + 1]
                      /\ queue[x].dedupId = DedupIdOf(c, queue[x].id[2] + 1)
            /\ SucceededInBody(c) => Cardinality(EnqueuedFor(e)) = n

\* A call of the two-item order has returned with both its messages on the
\* queue, in one group.
FannedOut ==
    \E c \in DOMAIN calls :
        /\ SucceededInBody(c)
        /\ Len(queue) = Len(calls[c].event.orderItems)
        /\ Len(queue) >= 2
        /\ \A x \in 1..Len(queue) : queue[x].group = calls[c].event.orderId

(* ------------------------------ two orders ----------------------------- *)

\* A one-item order of another customer order id; its item 0 never fails.
OtherOrder == Order("o2", 1, 1)

\* The message of the item of the four-item order that always fails, and the
\* message of the item of the other order.
FailingMessage ==
    Message(1, 4, orderItemRecords(FourItems, toISOString(0))[4], 0)

OtherMessage ==
    Message(2, 1, orderItemRecords(OtherOrder, toISOString(0))[1], 0)

\* Two ingestions have ended: of the four-item order only the send of item 3
\* was accepted, the other order was ingested whole; the two messages are
\* queued in either order of arrival.
CrossInit ==
    /\ now = 0
    /\ orders = PutOrderRecord(
                    PutOrderRecord({}, orderRecord(FourItems, toISOString(0))),
                    orderRecord(OtherOrder, toISOString(0)))
    /\ items = BatchPutItems(
                    BatchPutItems(<<>>, orderItemRecords(FourItems, toISOString(0))),
                    orderItemRecords(OtherOrder, toISOString(0)))
    /\ idem = SaveRecord(<<>>, IdempotencyKey(OtherOrder),
                  [status |-> "COMPLETED", result |-> SuccessResult])
    /\ calls = [c \in 1..2 |->
                  IF c = 1
                  THEN [IdleCall EXCEPT !.pc = "done", !.event = FourItems,
                          !.timestamp = toISOString(0), !.sentAt = 0,
                          !.sends = [i \in DOMAIN FourItems.orderItems |->
                                        IF i = 4 THEN "ok" ELSE "failed"],
                          !.outcome = Thrown("EnqueueError")]
                  ELSE [IdleCall EXCEPT !.pc = "done", !.event = OtherOrder,
                          !.timestamp = toISOString(0), !.sentAt = 0,
                          !.sends = [i \in DOMAIN OtherOrder.orderItems |-> "ok"],
                          !.outcome = Returned(SuccessResult)]]
    /\ queue \in { <<FailingMessage, OtherMessage>>, <<OtherMessage, FailingMessage>> }
    /\ dedup = { FailingMessage.dedupId, OtherMessage.dedupId }
    /\ dlq = <<>>
    /\ procs = {}
    /\ dlqInv = {}
    /\ hist = HistOf(queue)

CrossNext == Consumers

\* The consumers on the messages of two orders, every enabled step of the
\* queues and of the consumers being taken in time.
CrossSpec == CrossInit /\ [][CrossNext]_vars /\ Fairness

\* The key of the item of the other order.
OtherKey == ItemKey(OtherMessage.body)

\* C20: the message of the other order can be received whenever it is
\* visible, whatever the state of the failing message; its item changes only
\* in a step of an invocation that holds it; it leaves the queue only by its
\* own acknowledgement or redrive; and, unless one of its own deliveries is
\* lost to a store error or to the timeouts, its item becomes PROCESSED and
\* it stays off the dead-letter queue.
CrossPartitionIsolation ==
    /\ [](\A i \in 1..Len(queue) :
            queue[i].id = OtherMessage.id =>
                (Receivable(queue, i) <=> queue[i].visible))
    /\ [][/\ items'[OtherKey] # items[OtherKey] =>
                \/ \E p \in procs : p.id = OtherMessage.id /\ p.pc = "update"
                \/ \E d \in dlqInv : OtherMessage.id \in d.todo
          /\ (Queued(OtherMessage.id) /\ ~Queued(OtherMessage.id)') =>
                \/ \E p \in procs :
                      p.id = OtherMessage.id /\ p.pc = "ack" /\ p \notin procs'
                \/ InDlq(OtherMessage.id)']_vars
    /\ Queued(OtherMessage.id)
          ~> (MarkedProcessed(OtherMessage.id) \/ Faulted(OtherMessage.id))
    /\ [](InDlq(OtherMessage.id) => Faulted(OtherMessage.id))

\* The item of the other order is PROCESSED and its message acknowledged
\* while the failing message, which has failed, is still on the main queue,
\* short of its last delivery.
ProcessedBesideFailing ==
    /\ StatusOf(items, OtherKey) = "PROCESSED"
    /\ ~Queued(OtherMessage.id)
    /\ ~InDlq(OtherMessage.id)
    /\ \E i \in 1..Len(queue) :
          /\ queue[i].id = FailingMessage.id
          /\ queue[i].rc < maxReceiveCount
          /\ hist[queue[i].id].fail >= 1

(* ------------------------- ingestion over stored items ----------------- *)

\* C21: no step takes an item whose status is PROCESSED or FAILED back to
\* PENDING.
NeverBackToPending ==
    [][\A k \in DOMAIN items :
          items[k].itemStatus \in Terminal =>
              StatusOf(items', k) # "PENDING"]_vars

(* ------------------------ write, then acknowledge ---------------------- *)

\* Every message of q is in r with the receive count it had.
StillQueued(q, r) ==
    \A i \in 1..Len(q) :
        \E j \in 1..Len(r) : r[j].id = q[i].id /\ r[j].rc = q[i].rc

\* C22: an OrderProcessor invocation comes to return without error only in a
\* step after which its item is PROCESSED or FAILED in the store; a message
\* leaves the main queue, other than to the dead-letter queue, only when such
\* an invocation returns; and when an invocation ends at the status write
\* without having written, the items are unchanged and every message stays
\* queued with its receive count, to be received again.
WriteThenAcknowledge ==
    [][/\ \A q \in procs' :
             (q.pc = "ack" /\ q \notin procs) =>
                 StatusOf(items', ItemKey(q.body)) \in Terminal
       /\ \A id \in DOMAIN hist :
             (Queued(id) /\ ~Queued(id)' /\ ~InDlq(id)') =>
                 \E p \in procs : p.id = id /\ p.pc = "ack" /\ p \notin procs'
       /\ \A p \in procs :
             (p.pc = "update" /\ p \notin procs' /\ Moved(p, "ack") \notin procs') =>
                 /\ items' = items
                 /\ StillQueued(queue, queue')]_vars

\* The unit of work of a message succeeded and the status write failed: the
\* invocation has ended, the item is PENDING and the message is still queued.
UpdateFailedRequeued ==
    \E i \in 1..Len(queue) :
        /\ hist[queue[i].id].ok >= 1
        /\ hist[queue[i].id].faulted
        /\ \A p \in procs : p.id # queue[i].id
        /\ StatusOf(items, ItemKey(queue[i].body)) = "PENDING"

(* ------------------------- frame of the consumers ---------------------- *)

\* The item stored under k is as it was, but for its status, now PROCESSED,
\* and its processedAt.
OnlyMarkedProcessed(k) ==
    items'[k] = [items[k] EXCEPT !.itemStatus = "PROCESSED",
                                 !.processedAt = items'[k].processedAt]

\* The item stored under k is as it was, but for its status, now FAILED, and
\* its failedAt.
OnlyMarkedFailed(k) ==
    items'[k] = [items[k] EXCEPT !.itemStatus = "FAILED",
                                 !.failedAt = items'[k].failedAt]

\* C23: a step of an OrderProcessor invocation leaves the Order records and
\* the set of item records as they are and changes at most the item of its
\* message, to PROCESSED with processedAt; a step of a DLQProcessor
\* invocation likewise changes at most an item of one of its messages, to
\* FAILED with failedAt.
ConsumerFrame ==
    [][/\ ProcessorStep =>
             /\ orders' = orders
             /\ DOMAIN items' = DOMAIN items
             /\ \E p \in procs :
                   \A k \in DOMAIN items :
                      \/ items'[k] = items[k]
                      \/ k = ItemKey(p.body) /\ OnlyMarkedProcessed(k)
       /\ DlqStep =>
             /\ orders' = orders
             /\ DOMAIN items' = DOMAIN items
             /\ \E d \in dlqInv :
                   \A k \in DOMAIN items :
                      \/ items'[k] = items[k]
                      \/ /\ k \in { ItemKey(r.body) : r \in d.records }
                         /\ OnlyMarkedFailed(k)]_vars

\* Both consumers have written: an item is FAILED, with the processedAt an
\* OrderProcessor invocation wrote and the failedAt the DLQProcessor wrote,
\* the attributes ingestion stored still in place and the Order record
\* stored.
WrittenByBoth ==
    \E k \in DOMAIN items :
        /\ items[k].itemStatus = "FAILED"
        /\ items[k].processedAt # NoValue
        /\ items[k].failedAt # NoValue
        /\ items[k].timestamp # NoValue
        /\ \E r \in orders : r.orderId = k[1]

(* ------------------------- dead-letter batches ------------------------- *)

\* The record r of a batch was handled: its mark-FAILED write was made, or
\* was attempted and failed.
Handled(r) ==
    \/ items[ItemKey(r.body)].failedAt # NoValue
    \/ hist[r.id].unmarked

\* C24: a record a DLQProcessor invocation has settled was handled, whatever
\* happened to the other records of its batch; the invocation goes on until
\* every record of the batch is settled; and every message the handler has
\* received is handled in the end.
DlqBatchIndependence ==
    /\ [](\A d \in dlqInv : \A r \in d.records :
             r.id \notin d.todo => Handled(r))
    /\ [][\A d \in dlqInv : GoesOn(d) \/ d.todo = {}]_vars
    /\ \A id \in FourItemIds :
          DlqHeld(id) ~> (id \in DOMAIN hist /\
                          Handled([id |-> id, body |-> hist[id].body]))

\* A DLQProcessor invocation has settled a batch of several records: the
\* write of one failed, and the item of another is FAILED with failedAt set.
OneFailedOneMarked ==
    \E d \in dlqInv :
        /\ d.todo = {}
        /\ \E r1, r2 \in d.records :
              /\ r1.id # r2.id
              /\ hist[r1.id].unmarked
              /\ items[ItemKey(r1.body)].failedAt = NoValue
              /\ StatusOf(items, ItemKey(r2.body)) = "FAILED"
              /\ items[ItemKey(r2.body)].failedAt # NoValue

(* ----------------------------- item identity --------------------------- *)

\* `${orderId}-item-${index}` as the text it is.
itemIdText(orderId, index) == orderId \o "-item-" \o ToString(index)

\* The call c has made its batch write.
WroteItems(c) == calls[c].pc \in {"send", "done"} /\ calls[c].sends # <<>>

\* C25: the item records an execution writes for an order of n items have
\* the ids of their positions, pairwise different, as ids and as text; the
\* stored keys of an order are those n keys, however many executions wrote
\* them and whatever their timestamps.
DeterministicItemIdentity ==
    \A c \in DOMAIN calls :
        WroteItems(c) =>
            LET e    == calls[c].event
                n    == Len(e.orderItems)
                recs == orderItemRecords(e, calls[c].timestamp)
            IN
            /\ \A i \in 1..n : recs[i].itemId = ItemIdOf(e.orderId, i - 1)
            /\ \A i, j \in 1..n :
                  i # j => /\ recs[i].itemId # recs[j].itemId
                           /\ itemIdText(e.orderId, i - 1) # itemIdText(e.orderId, j - 1)
            /\ { k \in DOMAIN items : k[1] = e.orderId } = ItemKeysOf(e)
            /\ Cardinality(ItemKeysOf(e)) = n
            /\ \A r \in DOMAIN calls :
                  (WroteItems(r) /\ calls[r].event.orderId = e.orderId) =>
                      { ItemKey(x) : x \in { recs[i] : i \in 1..n } } =
                      { ItemKey(orderItemRecords(calls[r].event, calls[r].timestamp)[i]) :
                            i \in 1..Len(calls[r].event.orderItems) }

\* Two executions for the same order have written their item records at
\* different times, and the store holds one record per position.
ReingestedSameKeys ==
    \E c, r \in DOMAIN calls :
        /\ c # r
        /\ WroteItems(c)
        /\ WroteItems(r)
        /\ calls[c].timestamp # calls[r].timestamp
        /\ Cardinality(DOMAIN items) = Len(calls[c].event.orderItems)

(* --------------------------- items left behind ------------------------- *)

\* The message of item i of call c is on a queue or held by an invocation.
MessageRemains(c, i) == <<c, i - 1>> \in Alive(queue, dlq, procs, dlqInv)

\* The status stored for item i of the order of call c.
StatusOfItem(c, i) ==
    StatusOf(items, <<calls[c].event.orderId,
                      ItemIdOf(calls[c].event.orderId, i - 1)>>)

AtMostOnceSuccess ==
    \A id \in DOMAIN hist : hist[id].ok <= 1

\* C28, as stated: the item of a message is FAILED only when its unit of
\* work failed on maxReceiveCount deliveries; an item whose unit of work
\* never fails is never FAILED.
FailedOnlyAfterFailures ==
    \A id \in DOMAIN hist :
        ItemFailed(id) =>
            /\ hist[id].fail = maxReceiveCount
            /\ lastDigit(hist[id].body.itemId) \in {1, 3}

\* C28, as the code has it: an item is marked FAILED only for a message that
\* was received maxReceiveCount times and dead-lettered; unless one of those
\* deliveries was lost to a store error or to the timeouts, the unit of work
\* failed on each of them and never succeeded.
FailedOnlyAfterReceives ==
    [][\A k \in DOMAIN items :
          (StatusOf(items', k) = "FAILED" /\ items'[k] # items[k]) =>
              \E d \in dlqInv : \E r \in d.records :
                 /\ ItemKey(r.body) = k
                 /\ r.id \in d.todo
                 /\ InDlq(r.id)
                 /\ hist[r.id].deliveries = maxReceiveCount
                 /\ ~hist[r.id].faulted =>
                       (hist[r.id].fail = maxReceiveCount /\ hist[r.id].ok = 0)]_vars

\* An item whose unit of work never fails is FAILED: its message was received
\* maxReceiveCount times and no execution of its unit of work failed.
NeverFailingMarkedFailed ==
    \E id \in DOMAIN hist :
        /\ ItemFailed(id)
        /\ lastDigit(hist[id].body.itemId) \notin {1, 3}
        /\ hist[id].deliveries = maxReceiveCount
        /\ hist[id].fail = 0
        /\ hist[id].faulted

(* ------------------------- timestamps and status ----------------------- *)

\* C29: an item record has processedAt exactly when its status is PROCESSED
\* and failedAt exactly when its status is FAILED, and never both.
TimestampStatusConsistency ==
    \A k \in DOMAIN items :
        /\ items[k].processedAt # NoValue <=> items[k].itemStatus = "PROCESSED"
        /\ items[k].failedAt # NoValue <=> items[k].itemStatus = "FAILED"
        /\ ~(items[k].processedAt # NoValue /\ items[k].failedAt # NoValue)

(* ---------------------- behind a message that fails -------------------- *)

\* The message of the item of the four-item order that always fails.
BlockingId == FailingMessage.id

\* The messages of the items of the four-item order whose unit of work never
\* fails.
LaterIds ==
    { <<1, i - 1>> : i \in { j \in DOMAIN FourItems.orderItems :
                                lastDigit(ItemIdOf(FourItems.orderId, j - 1)) \notin {1, 3} } }

\* The four-item order was ingested with two sends accepted: first that of
\* the item that always fails, then that of an item that never fails.
BehindInit ==
    \E s \in { a \in Arrivals(Len(FourItems.orderItems)) :
                  /\ Len(a) = 2
                  /\ <<1, a[1] - 1>> = BlockingId
                  /\ <<1, a[2] - 1>> \in LaterIds } :
        Ingested(FourItems, s)

BehindNext == Consumers

\* The consumers on a message queued behind one of its order that always
\* fails, every enabled step of the queues and of the consumers being taken
\* in time.
BehindSpec == BehindInit /\ [][BehindNext]_vars /\ Fairness

=============================================================================
